---- MODULE Spec2Model ----
(***************************************************************************)
(* A model of SimPEG/Mesh/PointerTree.py: the Z-order (Morton) codec       *)
(* ZCurve and the pointer quad/octree Tree (cell store, geometry,          *)
(* neighbour walker, numbering, lazy caches, divergence, refinement).      *)
(*                                                                         *)
(* Conventions.                                                            *)
(*  - A pointer [i1, .., id, level] is a sequence of length dim+1.         *)
(*    Python's 0-based positions are kept for directions (DIR = 0, 1, 2)   *)
(*    and face ids; a TLA+ sequence position is the Python position + 1.   *)
(*  - Python integers are unbounded; every value met here is below 2^31.   *)
(*  - The spacings h are positive reals in the program.  Here they are     *)
(*    positive integers (multiples of a common unit); origins, widths,     *)
(*    areas and volumes are exact in that unit, and every centre is kept   *)
(*    DOUBLED (2*origin + width) so that it stays an integer.              *)
(*  - An attribute that the object does not have (getattr gives None) is   *)
(*    the empty sequence <<>>; an attribute holding v is <<v>>.            *)
(***************************************************************************)
EXTENDS Integers, Sequences, FiniteSets, TLC

VARIABLES
    dim,          \* len(self.h)
    levels,       \* self._levels
    h,            \* self.h
    _treeInds,    \* self._treeInds
    __dirty__,    \* self.__dirty__
    _gridCC,      \* self._gridCC
    _gridFx,      \* self._gridFx
    _gridFy,      \* self._gridFy
    _gridFz,      \* self._gridFz
    _faceDiv,     \* self._faceDiv
    _numbering,   \* what number() assigns besides the grids: _c2f, _area, _vol,
                  \* _hangingFacesX/Y/Z, _nC, _nFx, _nFy, _nFz, _nF
    call,         \* the last call made on the object and what it returned or raised
    frame         \* the running refine() call: its cells, position and recurse list

vars == <<dim, levels, h, _treeInds, __dirty__, _gridCC, _gridFx, _gridFy,
          _gridFz, _faceDiv, _numbering, call, frame>>

(***************************************************************************)
(* Bounds of the model.                                                    *)
(***************************************************************************)
MaxLevels == 3        \* the meshes have levels in 1 .. MaxLevels
MaxSplits == 3        \* at most this many cells split by hand per behaviour
MaxRefineSplits == 9  \* at most this many cells split in all where refine() runs
MaxWalkLevels == 4    \* the meshes the neighbour walk is followed on have levels up to this
MaxWalkSplits == 4    \* and at most this many cells split by hand

(***************************************************************************)
(* Program constants.                                                      *)
(***************************************************************************)
ZBits == 20           \* ZCurve(self.dim, 20)

Unset == <<>>
Some(v) == <<v>>

Reverse(s) == [i \in 1..Len(s) |-> s[Len(s) + 1 - i]]

\* x >> n for 0 <= x < 2^31
Shr(x, n) == IF n >= 31 THEN 0 ELSE x \div (2^n)
\* b << n
Shl(b, n) == IF b = 0 THEN 0 ELSE b * (2^n)

(***************************************************************************)
(* class ZCurve                                                            *)
(***************************************************************************)
bitrange(x, width, start, end) == Shr(x, width - end) % (2^(end - start))

RECURSIVE ZIndexLoop(_, _, _, _, _)
\* the passes i = lo .. hi-1 of the loop, in order, starting from idx; the first
\* half of the passes is evaluated to a value before the second half starts
ZIndexLoop(p, dimension, lo, hi, idx) ==
    IF hi = lo THEN idx
    ELSE IF hi = lo + 1
    THEN LET bitoff == ZBits - (lo \div dimension) - 1
             poff   == dimension - (lo % dimension) - 1
             b      == Shl(bitrange(p[poff + 1], ZBits, bitoff, bitoff + 1), lo)
         IN  idx + b  \* idx |= b: bit lo is b's only bit
    ELSE LET mid == (lo + hi) \div 2
         IN  CHOOSE r \in {ZIndexLoop(p, dimension, mid, hi, half) :
                            half \in {ZIndexLoop(p, dimension, lo, mid, idx)}} : TRUE

\* ZCurve.index(p): p.reverse(), then the interleaving loop
ZIndexRun(p, dimension) == ZIndexLoop(Reverse(p), dimension, 0, ZBits * dimension, 0)

\* the coordinates the tables below hold: those of the deepest meshes followed
MemoLevels(dimension) == IF dimension = 2 THEN MaxWalkLevels ELSE MaxLevels
MemoCoords(dimension) == 0..(2^MemoLevels(dimension) - 1)
MemoPoints == (MemoCoords(2) \X MemoCoords(2))
                 \cup (MemoCoords(3) \X MemoCoords(3) \X MemoCoords(3))
ZIndexMemo == [p \in MemoPoints |-> ZIndexRun(p, Len(p))] @@ <<>>

ZCurveIndex(p, dimension) ==
    IF dimension = Len(p) /\ p \in DOMAIN ZIndexMemo THEN ZIndexMemo[p]
    ELSE ZIndexRun(p, dimension)

\* [0]*self.dimension
Zeros(dimension) == IF dimension = 2 THEN <<0, 0>> ELSE <<0, 0, 0>>

RECURSIVE ZPointLoop(_, _, _, _, _)
\* the passes i = lo .. hi-1 of the loop, in order, starting from p
\* (evaluated in halves as in ZIndexLoop)
ZPointLoop(idx, dimension, lo, hi, p) ==
    LET iwidth == ZBits * dimension IN
    IF hi = lo THEN p
    ELSE IF hi = lo + 1
    THEN LET b == Shl(bitrange(idx, iwidth, lo, lo + 1), (iwidth - lo - 1) \div dimension)
         IN  [p EXCEPT ![(lo % dimension) + 1] = @ + b]  \* p[i%d] |= b
    ELSE LET mid == (lo + hi) \div 2
         IN  CHOOSE r \in {ZPointLoop(idx, dimension, mid, hi, half) :
                            half \in {ZPointLoop(idx, dimension, lo, mid, p)}} : TRUE

\* ZCurve.point without the final p.reverse()
ZPointRunNoReverse(idx, dimension) ==
    ZPointLoop(idx, dimension, 0, ZBits * dimension, Zeros(dimension))

\* ZCurve.point(idx): the de-interleaving loop, then p.reverse()
ZPointRun(idx, dimension) ==
    Reverse(ZPointLoop(idx, dimension, 0, ZBits * dimension, Zeros(dimension)))

ZPointMemo ==
    [a \in UNION {{<<d, idx>> : idx \in 0..(2^(d * MemoLevels(d)) - 1)} : d \in 2..3} |->
        ZPointRun(a[2], a[1])] @@ <<>>

ZCurvePoint(idx, dimension) ==
    IF <<dimension, idx>> \in DOMAIN ZPointMemo THEN ZPointMemo[<<dimension, idx>>]
    ELSE ZPointRun(idx, dimension)

(***************************************************************************)
(* class Tree: encoding of pointers                                        *)
(***************************************************************************)
\* int(np.ceil(np.sqrt(levels)))
CeilSqrt(n) == CHOOSE r \in 0..n : r * r >= n /\ \A q \in 0..(r - 1) : q * q < n

_levelBits == CeilSqrt(levels) + 1

\* _index without its second assertion
_indexAssertsNoLevel(pointer) == Len(pointer) = dim + 1

\* the assertions of _index: the call raises AssertionError when this is false
_indexAsserts(pointer) ==
    /\ Len(pointer) = dim + 1
    /\ pointer[Len(pointer)] <= levels

_index(pointer) ==
    Shl(ZCurveIndex(SubSeq(pointer, 1, Len(pointer) - 1), dim), _levelBits)
        + pointer[Len(pointer)]

_pointer(index) ==
    LET n == index % (2^_levelBits)
        p == ZCurvePoint(Shr(index, _levelBits), dim)
    IN  p \o <<n>>

(***************************************************************************)
(* class Tree: cell store and geometry                                     *)
(***************************************************************************)
\* __contains__(v) for a pointer v: self._index(v) in self._treeInds
Contains(v) == _index(v) \in _treeInds

_levelWidth(level) == 2^(levels - level)

\* the parent's corner with the level left as it is
_parentPointerSameLevel(pointer) ==
    LET mod == _levelWidth(pointer[Len(pointer)] - 1)
    IN  [ii \in 1..(Len(pointer) - 1) |-> pointer[ii] - (pointer[ii] % mod)]
            \o <<pointer[Len(pointer)]>>

_parentPointer(pointer) ==
    LET mod == _levelWidth(pointer[Len(pointer)] - 1)
    IN  [ii \in 1..(Len(pointer) - 1) |-> pointer[ii] - (pointer[ii] % mod)]
            \o <<pointer[Len(pointer)] - 1>>

RECURSIVE SumRange(_, _, _)
\* hi[a:b].sum(), a and b Python slice bounds
SumRange(hi, a, b) == IF a >= b THEN 0 ELSE hi[a + 1] + SumRange(hi, a + 1, b)

_cellN(p) == [ii \in 1..dim |-> SumRange(h[ii], 0, p[ii])]

_cellH(p) ==
    LET w == _levelWidth(p[Len(p)])
    IN  [ii \in 1..dim |-> SumRange(h[ii], p[ii], p[ii] + w)]

\* _cellC(p) = _cellH(p)/2.0 + _cellN(p); kept doubled: _cellH(p) + 2*_cellN(p)
_cellC(p) == [ii \in 1..dim |-> _cellH(p)[ii] + 2 * _cellN(p)[ii]]

_isInsideMesh(pointer) ==
    \A ii \in 1..(Len(pointer) - 1) : pointer[ii] >= 0 /\ pointer[ii] < 2^levels

\* _onSameLevel(p0, i1) for a pointer p0 and an index i1
_onSameLevel(p0, i1) == p0[dim + 1] = _pointer(i1)[dim + 1]

(***************************************************************************)
(* Tree._getNextCell.  The result is None, an int (a cell index), or a     *)
(* list of results; a call that re-enters itself with the same pointer     *)
(* (the direction and the sign never change down the recursion) never      *)
(* returns: Python raises RuntimeError (maximum recursion depth).          *)
(***************************************************************************)
NoneV == [t |-> "None"]
IntV(i) == [t |-> "int", i |-> i]
ListV(l) == [t |-> "list", l |-> l]
Overflow == [t |-> "RuntimeError"]

\* the child anchors with those of direction 0 for every direction
childrenOfX(direction, hw) ==
    IF dim = 2
    THEN << <<0, 0>>, <<0, hw>> >>
    ELSE << <<0, 0, 0>>, <<0, hw, 0>>, <<0, 0, hw>>, <<0, hw, hw>> >>

\* the child anchors of lines 357-363, without the trailing level increment
children(direction, hw) ==
    IF dim = 2
    THEN IF direction = 0 THEN << <<0, 0>>, <<0, hw>> >>
                          ELSE << <<0, 0>>, <<hw, 0>> >>
    ELSE IF direction = 0
         THEN << <<0, 0, 0>>, <<0, hw, 0>>, <<0, 0, hw>>, <<0, hw, hw>> >>
         ELSE IF direction = 1
              THEN << <<0, 0, 0>>, <<hw, 0, 0>>, <<0, 0, hw>>, <<hw, 0, hw>> >>
              ELSE << <<0, 0, 0>>, <<hw, 0, 0>>, <<0, hw, 0>>, <<hw, hw, 0>> >>

RECURSIVE NextCellRec(_, _, _, _)
NextCellRec(pointer, direction, positive, stack) ==
    IF pointer \in stack THEN Overflow
    ELSE
    LET lev      == pointer[dim + 1]
        step     == (IF positive THEN 1 ELSE -1) * _levelWidth(lev)
        nextCell == [pointer EXCEPT ![direction + 1] = @ + step]
        deeper   == stack \cup {pointer}
    IN
    IF ~_isInsideMesh(nextCell) THEN NoneV
    ELSE IF Contains(nextCell) THEN IntV(_index(nextCell))
    ELSE
    LET \* it might be smaller than me?
        finer == [nextCell EXCEPT ![dim + 1] = @ + 1,
                                  ![direction + 1] =
                                      IF positive THEN @ ELSE @ - (step \div 2)]
        hw    == _levelWidth(lev) \div 2
        base  == [pointer EXCEPT ![direction + 1] =
                                      @ + (IF positive THEN step \div 2 ELSE 0)]
        kids  == children(direction, hw)
        sub   == [k \in 1..Len(kids) |->
                    NextCellRec([ii \in 1..dim |-> base[ii] + kids[k][ii]]
                                    \o <<base[dim + 1] + 1>>,
                                direction, positive, deeper)]
    IN
    IF lev + 1 <= levels /\ Contains(finer)
    THEN IF \E k \in 1..Len(sub) : sub[k] = Overflow THEN Overflow ELSE ListV(sub)
    ELSE \* it might be bigger than me?
         NextCellRec(_parentPointer(pointer), direction, positive, deeper)

_getNextCell(pointer, direction, positive) ==
    NextCellRec(pointer, direction, positive, {})

(***************************************************************************)
(* Tree.number.  The lists number() fills are one accumulator record:      *)
(* c2f, and per axis (X, Y, Z) the face centres, the areas, the hanging    *)
(* faces and the running face count; raised names the exception that       *)
(* ended the run, if any.                                                  *)
(***************************************************************************)
\* sorted(T): the members of T in ascending order
Sorted(T) ==
    LET rank == [x \in T |-> Cardinality({y \in T : y < x}) + 1]
    IN  [i \in 1..Cardinality(T) |-> CHOOSE x \in T : rank[x] = i] \o <<>>

\* the property _sortedInds: the getattr of '__sortedInds' (a name the class
\* body mangles when it assigns) is always None, so every read sorts anew
_sortedInds == Sorted(_treeInds)

\* addXFace / addYFace / addZFace on n = _cellN(p), w = _cellH(p): the area and
\* the (doubled) centre they append
XFace(n, w, positive) ==
    [area |-> IF dim = 2 THEN w[2] ELSE w[2] * w[3],
     face |-> IF dim = 2
              THEN <<2 * (n[1] + (IF positive THEN w[1] ELSE 0)), 2 * n[2] + w[2]>>
              ELSE <<2 * (n[1] + (IF positive THEN w[1] ELSE 0)), 2 * n[2] + w[2],
                     2 * n[3] + w[3]>>]

YFace(n, w, positive) ==
    [area |-> IF dim = 2 THEN w[1] ELSE w[1] * w[3],
     face |-> IF dim = 2
              THEN <<2 * n[1] + w[1], 2 * (n[2] + (IF positive THEN w[2] ELSE 0))>>
              ELSE <<2 * n[1] + w[1], 2 * (n[2] + (IF positive THEN w[2] ELSE 0)),
                     2 * n[3] + w[3]>>]

ZFace(n, w, positive) ==
    [area |-> w[1] * w[2],
     face |-> <<2 * n[1] + w[1], 2 * n[2] + w[2],
                2 * (n[3] + (IF positive THEN w[3] ELSE 0))>>]

addXFace(p, positive) == XFace(_cellN(p), _cellH(p), positive)
addYFace(p, positive) == YFace(_cellN(p), _cellH(p), positive)
addZFace(p, positive) == ZFace(_cellN(p), _cellH(p), positive)

appendFace(acc, DIR, f) ==
    [acc EXCEPT !.area[DIR + 1]  = Append(@, f.area),
                !.faces[DIR + 1] = Append(@, f.face),
                !.count[DIR + 1] = @ + 1]

\* faceCount = addFace(faceCount, p, positive), addFace the axis DIR's
addFace(acc, DIR, p, positive) ==
    appendFace(acc, DIR, IF DIR = 0 THEN addXFace(p, positive)
                         ELSE IF DIR = 1 THEN addYFace(p, positive)
                         ELSE addZFace(p, positive))

\* [list() for _ in xrange(2*self.dim)]
noFaces == IF dim = 2 THEN << <<>>, <<>>, <<>>, <<>> >>
           ELSE << <<>>, <<>>, <<>>, <<>>, <<>>, <<>> >>

\* gc2f(ind)[f] += faceIds
gc2fAdd(acc, ind, f, faceIds) ==
    IF ind \in DOMAIN acc.c2f
    THEN [acc EXCEPT !.c2f[ind][f + 1] = @ \o faceIds]
    ELSE [acc EXCEPT !.c2f = @ @@ (ind :> [noFaces EXCEPT ![f + 1] = faceIds])]

\* gc2f(ind)[f] += [faceCount]
gc2fCount(acc, ind, f, DIR) == gc2fAdd(acc, ind, f, <<acc.count[DIR + 1]>>)

\* hangingFaces.append(faceCount)
hangCount(acc, DIR) == [acc EXCEPT !.hanging[DIR + 1] = Append(@, acc.count[DIR + 1])]

\* gc2f(ind)[fP] += [faceCount-1, faceCount]; hangingFaces += [faceCount-1, faceCount]
hangPair(acc, ind, fP, DIR) ==
    [gc2fAdd(acc, ind, fP, <<acc.count[DIR + 1] - 1, acc.count[DIR + 1]>>)
        EXCEPT !.hanging[DIR + 1] = @ \o <<acc.count[DIR + 1] - 1, acc.count[DIR + 1]>>]

Raise(acc, what) == [acc EXCEPT !.raised = what]

\* a face on the negative side of every cell, the boundary or not
processNegativeAlways(acc, ind, DIR, p, neg) ==
    gc2fCount(addFace(acc, DIR, p, FALSE), ind, 2 * DIR, DIR)

\* lines 453-455: the face on the negative side, at the boundary only
processNegative(acc, ind, DIR, p, neg) ==
    IF neg = NoneV
    THEN gc2fCount(addFace(acc, DIR, p, FALSE), ind, 2 * DIR, DIR)
    ELSE acc

\* lines 475-489: the neighbour is a list of smaller cells; _pointer asserts
\* that what it is given is an int
processList(acc, ind, DIR, l) ==
    IF l[1].t # "int" \/ l[2].t # "int" THEN Raise(acc, "AssertionError")
    ELSE hangPair(
           gc2fCount(
             addFace(
               gc2fCount(addFace(acc, DIR, _pointer(l[1].i), FALSE),
                         l[1].i, 2 * DIR, DIR),
               DIR, _pointer(l[2].i), FALSE),
             l[2].i, 2 * DIR, DIR),
           ind, 2 * DIR + 1, DIR)

\* lines 457-489: the face(s) on the positive side
processPositive(acc, ind, DIR, p, nextCell) ==
    IF nextCell = NoneV
    THEN \* on the boundary
         gc2fCount(addFace(acc, DIR, p, TRUE), ind, 2 * DIR + 1, DIR)
    ELSE IF nextCell.t = "int" /\ _onSameLevel(p, nextCell.i)
    THEN \* same sized cell
         gc2fCount(gc2fCount(addFace(acc, DIR, p, TRUE), ind, 2 * DIR + 1, DIR),
                   nextCell.i, 2 * DIR, DIR)
    ELSE IF nextCell.t = "int"
    THEN \* the cell is bigger than me
         hangCount(
           gc2fCount(gc2fCount(addFace(acc, DIR, p, TRUE), ind, 2 * DIR + 1, DIR),
                     nextCell.i, 2 * DIR, DIR),
           DIR)
    ELSE \* the cell is smaller than me
         processList(acc, ind, DIR, nextCell.l)

processSides(acc, ind, DIR, p, neg, nextCell) ==
    IF acc.raised # "" THEN acc
    ELSE IF neg = Overflow \/ nextCell = Overflow THEN Raise(acc, "RuntimeError")
    ELSE processPositive(processNegative(acc, ind, DIR, p, neg), ind, DIR, p, nextCell)

processCell(acc, ind, DIR) ==
    processSides(acc, ind, DIR, _pointer(ind),
                 _getNextCell(_pointer(ind), DIR, FALSE),
                 _getNextCell(_pointer(ind), DIR, TRUE))

Product(w) == IF Len(w) = 2 THEN w[1] * w[2] ELSE w[1] * w[2] * w[3]

\* vol.append(np.prod(self._cellH(ind)))
appendVol(acc, ind) == [acc EXCEPT !.vol = Append(@, Product(_cellH(_pointer(ind))))]

processZ(acc, ind) == IF dim = 3 THEN processCell(acc, ind, 2) ELSE acc

\* the body of the loop of lines 493-499 for one cell
numberCell(acc, ind) ==
    processZ(processCell(processCell(appendVol(acc, ind), ind, 0), ind, 1), ind)

\* the passes lo .. hi of the loop of lines 493-499, in order, from acc; an
\* exception ends the loop
RECURSIVE numberLoop(_, _, _, _)
numberLoop(acc, inds, lo, hi) ==
    IF hi < lo \/ acc.raised # "" THEN acc
    ELSE IF hi = lo THEN numberCell(acc, inds[lo])
    ELSE LET half == numberLoop(acc, inds, lo, (lo + hi) \div 2)
         IN  numberLoop(half, inds, ((lo + hi) \div 2) + 1, hi)

\* what one run of the body of number() computes from the live cells
numberBody ==
    numberLoop([c2f     |-> <<>>,
                faces   |-> << <<>>, <<>>, <<>> >>,
                area    |-> << <<>>, <<>>, <<>> >>,
                hanging |-> << <<>>, <<>>, <<>> >>,
                count   |-> <<-1, -1, -1>>,
                vol     |-> <<>>,
                raised  |-> ""],
               _sortedInds, 1, Len(_sortedInds))

(***************************************************************************)
(* The object's lazily derived attributes, as a record o, so that a method *)
(* is a function from the attributes before the call to those after it     *)
(* (the live cells, dim, levels and h are not changed by any read).        *)
(***************************************************************************)
Self ==
    [dirty     |-> __dirty__,
     gridCC    |-> _gridCC,
     gridFx    |-> _gridFx,
     gridFy    |-> _gridFy,
     gridFz    |-> _gridFz,
     faceDiv   |-> _faceDiv,
     numbering |-> _numbering,
     raised    |-> ""]

Commit(o) ==
    /\ __dirty__'  = o.dirty
    /\ _gridCC'    = o.gridCC
    /\ _gridFx'    = o.gridFx
    /\ _gridFy'    = o.gridFy
    /\ _gridFz'    = o.gridFz
    /\ _faceDiv'   = o.faceDiv
    /\ _numbering' = o.numbering

\* lines 501-518: what number() assigns once its loop is through
numberAssign(o, a) ==
    [o EXCEPT
       !.numbering = Some(
           [_c2f  |-> a.c2f,
            _area |-> a.area[1] \o a.area[2] \o (IF dim = 3 THEN a.area[3] ELSE <<>>),
            _vol  |-> a.vol,
            _hangingFacesX |-> a.hanging[1],
            _hangingFacesY |-> a.hanging[2],
            _hangingFacesZ |-> IF dim = 3 THEN Some(a.hanging[3]) ELSE Unset,
            _nFz  |-> IF dim = 3 THEN Some(Len(a.faces[3])) ELSE Unset,
            _nC   |-> Len(a.vol),
            _nFx  |-> Len(a.faces[1]),
            _nFy  |-> Len(a.faces[2]),
            _nF   |-> Len(a.faces[1]) + Len(a.faces[2])
                        + (IF dim = 3 THEN Len(a.faces[3]) ELSE 0)]),
       !.gridFx = Some(a.faces[1]),
       !.gridFy = Some(a.faces[2]),
       !.gridFz = IF dim = 3 THEN Some(a.faces[3]) ELSE @,
       !.dirty  = FALSE]

numberEnd(o, a) ==
    IF a.raised # "" THEN [o EXCEPT !.raised = a.raised] ELSE numberAssign(o, a)

\* number(force=False)
number(o) == IF ~o.dirty THEN o ELSE numberEnd(o, numberBody)

\* _structureChange()
_structureChange(o) ==
    IF o.dirty THEN o
    ELSE \* deleteThese = ['__sortedInds', '_gridCC', '_gridFx']
         [o EXCEPT !.gridCC = Unset, !.gridFx = Unset, !.dirty = TRUE]

(***************************************************************************)
(* The properties.  Each gives [o |-> attributes after, ret |-> value];    *)
(* when o.raised # "" the call raised and ret means nothing.               *)
(***************************************************************************)
NoRet == <<>>

nC == Cardinality(_treeInds)

Returns(o, ret) == [o |-> o, ret |-> IF o.raised # "" THEN NoRet ELSE ret]

CountOf(o, which) ==
    CASE which = "nF"  -> Some(o.numbering[1]._nF)
      [] which = "nFx" -> Some(o.numbering[1]._nFx)
      [] which = "nFy" -> Some(o.numbering[1]._nFy)
      [] which = "nFz" -> IF dim < 3 THEN Unset ELSE o.numbering[1]._nFz

countAfter(o, which) == [o |-> o, ret |-> IF o.raised # "" THEN NoRet ELSE CountOf(o, which)]
volAfter(o) == [o |-> o, ret |-> IF o.raised # "" THEN NoRet ELSE o.numbering[1]._vol]
areaAfter(o) == [o |-> o, ret |-> IF o.raised # "" THEN NoRet ELSE o.numbering[1]._area]
gridFxAfter(o) == [o |-> o, ret |-> IF o.raised # "" THEN NoRet ELSE o.gridFx[1]]
gridFyAfter(o) == [o |-> o, ret |-> IF o.raised # "" THEN NoRet ELSE o.gridFy[1]]
gridFzAfter(o) == [o |-> o, ret |-> IF o.raised # "" THEN NoRet ELSE o.gridFz[1]]
gridCCAfter(o) == [o |-> o, ret |-> o.gridCC[1]]

\* nF, nFx, nFy, nFz: self.number(), then the attribute (nFz: None when dim < 3)
nFprop(o, which) == countAfter(number(o), which)

\* vol, area
volprop(o) == volAfter(number(o))
areaprop(o) == areaAfter(number(o))

\* the rows gridCC fills: one per entry of _sortedInds, the cell's centre
gridCCrows == [ii \in 1..Len(_sortedInds) |-> _cellC(_pointer(_sortedInds[ii]))]

gridCC(o) ==
    gridCCAfter(IF o.gridCC = Unset THEN [o EXCEPT !.gridCC = Some(gridCCrows)] ELSE o)

gridFx(o) == gridFxAfter(IF o.gridFx = Unset THEN number(o) ELSE o)

gridFy(o) == gridFyAfter(IF o.gridFy = Unset THEN number(o) ELSE o)

\* for dim < 3 the property returns None before looking at anything
gridFz(o) ==
    IF dim < 3 THEN [o |-> o, ret |-> NoRet]
    ELSE gridFzAfter(IF o.gridFz = Unset THEN number(o) ELSE o)

\* the triplets (I, J, V) of lines 526-536, in the order they are appended:
\* those of the passes lo .. hi, pass s being face k of cell ii with
\* s = (ii - 1) * 2 * dim + k
RECURSIVE faceTriplets(_, _, _, _, _)
faceTriplets(c2f, offset, inds, lo, hi) ==
    IF hi < lo THEN <<>>
    ELSE IF hi = lo
    THEN LET ii == ((lo - 1) \div (2 * dim)) + 1
             k  == ((lo - 1) % (2 * dim)) + 1
         IN  [n \in 1..Len(c2f[inds[ii]][k]) |->
                 <<ii - 1, c2f[inds[ii]][k][n] + offset[k],
                   IF k % 2 = 1 THEN -1 ELSE 1>>] \o <<>>     \* PM = [-1,1]*dim
    ELSE faceTriplets(c2f, offset, inds, lo, (lo + hi) \div 2)
           \o faceTriplets(c2f, offset, inds, ((lo + hi) \div 2) + 1, hi)

\* sp.csr_matrix((V,(I,J)), shape=(self.nC, self.nF)), then the product with
\* sdiag(1.0/VOL) and sdiag(S), kept as its factors; a row or a column outside
\* the shape is a ValueError
faceDivMatrix(o, shape, T) ==
    IF \E n \in 1..Len(T) : T[n][1] >= shape[1] \/ T[n][2] >= shape[2]
    THEN [o |-> [o EXCEPT !.raised = "ValueError"], ret |-> NoRet]
    ELSE [o |-> [o EXCEPT !.faceDiv =
                    Some([shape |-> shape, entries |-> T,
                          VOL |-> o.numbering[1]._vol, S |-> o.numbering[1]._area])],
          ret |-> [shape |-> shape, entries |-> T,
                   VOL |-> o.numbering[1]._vol, S |-> o.numbering[1]._area]]

faceOffsets(nb) ==
    <<0, 0, nb._nFx, nb._nFx, nb._nFx + nb._nFy, nb._nFx + nb._nFy>>

\* lines 525-541, o the attributes after self.number(); self._c2f[ind] of a
\* cell without an entry is a KeyError
faceDivBuild(o, inds) ==
    IF o.raised # "" THEN [o |-> o, ret |-> NoRet]
    ELSE IF \E ii \in 1..Len(inds) : inds[ii] \notin DOMAIN o.numbering[1]._c2f
    THEN [o |-> [o EXCEPT !.raised = "KeyError"], ret |-> NoRet]
    ELSE faceDivMatrix(o, <<nC, o.numbering[1]._nF>>,
                       faceTriplets(o.numbering[1]._c2f, faceOffsets(o.numbering[1]),
                                    inds, 1, Len(inds) * 2 * dim))

faceDiv(o) ==
    IF o.faceDiv # Unset THEN [o |-> o, ret |-> o.faceDiv[1]]
    ELSE faceDivBuild(number(o), _sortedInds)

(***************************************************************************)
(* Tree._refineCell.  The argument is an index [t |-> "int", i |-> ..] or  *)
(* a pointer [t |-> "list", l |-> ..].  The result holds the live cells    *)
(* and the attributes as the call leaves them, also when it raises.        *)
(***************************************************************************)
IntArg(i) == [t |-> "int", i |-> i]
ListArg(l) == [t |-> "list", l |-> l]

_asPointer(arg) == IF arg.t = "int" THEN _pointer(arg.i) ELSE arg.l

\* the offsets with the fourth addCell call a copy of the third
childOffsetsCopied(hw) ==
    IF dim = 2
    THEN << <<0, 0>>, <<hw, 0>>, <<0, hw>>, <<0, hw>> >>
    ELSE << <<0, 0, 0>>, <<hw, 0, 0>>, <<0, hw, 0>>, <<0, hw, 0>>,
            <<0, 0, hw>>, <<hw, 0, hw>>, <<0, hw, hw>>, <<hw, hw, hw>> >>

\* the offsets of the addCell calls of lines 276-284, [..][:self.dim]
childOffsets(hw) ==
    IF dim = 2
    THEN << <<0, 0>>, <<hw, 0>>, <<0, hw>>, <<hw, hw>> >>
    ELSE << <<0, 0, 0>>, <<hw, 0, 0>>, <<0, hw, 0>>, <<hw, hw, 0>>,
            <<0, 0, hw>>, <<hw, 0, hw>>, <<0, hw, hw>>, <<hw, hw, hw>> >>

RECURSIVE addCells(_, _, _, _, _, _)
\* the addCell calls from the k-th on: each is _index (which may raise), then
\* self._treeInds.add(i) and added.append(i)
addCells(T, added, pointer, nL, offs, k) ==
    IF k > Len(offs) THEN [tree |-> T, added |-> added, raised |-> ""]
    ELSE LET p == [ii \in 1..dim |-> pointer[ii] + offs[k][ii]] \o <<nL>>   \* p+[nL]
         IN  IF ~_indexAsserts(p)
             THEN [tree |-> T, added |-> added, raised |-> "AssertionError"]
             ELSE addCells(T \cup {_index(p)}, Append(added, _index(p)),
                           pointer, nL, offs, k + 1)

refineEnd(o, ind, r) ==
    IF r.raised # ""
    THEN [o |-> [o EXCEPT !.raised = r.raised], tree |-> r.tree, added |-> r.added]
    ELSE [o |-> o, tree |-> r.tree \ {ind}, added |-> r.added]   \* _treeInds.remove(ind)

\* lines 265-286, o the attributes after _structureChange()
refinePointer(o, pointer) ==
    IF \/ ~_indexAsserts(pointer)               \* _asIndex -> _index
       \/ _index(pointer) \notin _treeInds      \* assert ind in self
    THEN [o |-> [o EXCEPT !.raised = "AssertionError"], tree |-> _treeInds,
          added |-> <<>>]
    ELSE refineEnd(o, _index(pointer),
                   addCells(_treeInds, <<>>, pointer,
                            pointer[dim + 1] + 1,                        \* nL
                            childOffsets(_levelWidth(pointer[dim + 1]) \div 2),
                            1))

_refineCell(o, arg) == refinePointer(_structureChange(o), _asPointer(arg))

(***************************************************************************)
(* The functions handed to refine: from a (doubled) cell centre to a level *)
(***************************************************************************)
\* twice the extent of the domain along axis ii
Extent2(ii) == 2 * SumRange(h[ii], 0, Len(h[ii]))

\* const: k everywhere; corner: k where the centre lies in the lower half of
\* every axis, else 0; centre: k where the centre lies in the middle half of
\* every axis, else 0
Apply(function, xc) ==
    CASE function.kind = "const"  -> function.k
      [] function.kind = "corner" ->
            IF \A ii \in 1..dim : 2 * xc[ii] < Extent2(ii) THEN function.k ELSE 0
      [] function.kind = "centre" ->
            IF \A ii \in 1..dim : 4 * xc[ii] > Extent2(ii) /\ 4 * xc[ii] < 3 * Extent2(ii)
            THEN function.k ELSE 0

Functions ==
    [kind : {"const"}, k : 0..(levels + 1)]
        \cup [kind : {"corner", "centre"}, k : 1..levels]

(***************************************************************************)
(* The spacings a mesh is built with: equal cells (h_in[i] an integer), or *)
(* widths that alternate, differently on each axis (h_in[i] an array)      *)
(***************************************************************************)
Spacings(d, L) ==
    { [ii \in 1..d |-> [n \in 1..(2^L) |-> 1]],
      [ii \in 1..d |-> [n \in 1..(2^L) |-> 1 + ((n + ii) % 2) * ii]] }

Idle == [pc |-> "idle"]

\* Tree.__init__(h_in, levels) for dim in {2, 3} and levels up to maxL
InitTree(maxL) ==
    /\ dim \in {2, 3}
    /\ levels \in 1..maxL
    /\ h \in Spacings(dim, levels)
    /\ ZCurveIndex(Zeros(dim), dim) = 0         \* self._zc = ZCurve(self.dim, 20):
    /\ ZCurvePoint(0, dim) = Zeros(dim)         \* the curve, which starts at the origin
    /\ _treeInds = {0}
    /\ __dirty__ = TRUE
    /\ _gridCC = Unset
    /\ _gridFx = Unset
    /\ _gridFy = Unset
    /\ _gridFz = Unset
    /\ _faceDiv = Unset
    /\ _numbering = Unset
    /\ call = [op |-> "__init__"]
    /\ frame = Idle

tree == <<dim, levels, h>>
cache == <<__dirty__, _gridCC, _gridFx, _gridFy, _gridFz, _faceDiv, _numbering>>

\* the number of cells split so far: each split replaces 1 cell by 2^dim
nSplits == (Cardinality(_treeInds) - 1) \div (2^dim - 1)

Level(ind) == _pointer(ind)[dim + 1]

\* the live cells that can be split, as indices
SplitArgs == {IntArg(i) : i \in {j \in _treeInds : Level(j) < levels}}

FirstLive == _pointer(CHOOSE i \in _treeInds : \A j \in _treeInds : i <= j)
LastLive == _pointer(CHOOSE i \in _treeInds : \A j \in _treeInds : i >= j)

\* the child of p at the given offset along every axis
Kid(p, off) == [ii \in 1..dim |-> p[ii] + off] \o <<p[dim + 1] + 1>>

\* arguments _refineCell has to refuse: the live cells of level L (as index and
\* as pointer), and cells that are not live: the parent of the first live
\* cell, the first child of the first live cell and the last child of the
\* last live cell
RefusedArgs ==
    {IntArg(i) : i \in {j \in _treeInds : Level(j) = levels}}
      \cup {ListArg(_pointer(i)) : i \in {j \in _treeInds : Level(j) = levels}}
      \cup {ListArg(_parentPointer(p)) : p \in {q \in {FirstLive} : q[dim + 1] > 0}}
      \cup {ListArg(Kid(FirstLive, 0))}
      \cup {IntArg(_index(Kid(p, _levelWidth(p[dim + 1]) \div 2))) :
                p \in {q \in {LastLive} : q[dim + 1] < levels}}

RefineApply(arg, r, maxSplits) ==
    /\ r.o.raised = "" => nSplits < maxSplits
    /\ _treeInds' = r.tree
    /\ Commit(r.o)
    /\ call' = [op |-> "_refineCell", arg |-> arg, raised |-> r.o.raised,
                ret |-> r.added]

\* T._refineCell(arg) for an arg of args, at most maxSplits successful ones
RefineCell(args, maxSplits) ==
    /\ frame = Idle
    /\ \E arg \in args : RefineApply(arg, _refineCell(Self, arg), maxSplits)
    /\ UNCHANGED <<tree, frame>>

(***************************************************************************)
(* Reads of the derived quantities                                         *)
(***************************************************************************)
Read(op, r) ==
    /\ frame = Idle
    /\ Commit(r.o)
    /\ call' = [op |-> op, raised |-> r.o.raised, ret |-> r.ret]
    /\ UNCHANGED <<tree, _treeInds, frame>>

ReadGridCC == Read("gridCC", gridCC(Self))
ReadGridFx == Read("gridFx", gridFx(Self))
ReadGridFy == Read("gridFy", gridFy(Self))
ReadGridFz == Read("gridFz", gridFz(Self))
ReadFaceDiv == Read("faceDiv", faceDiv(Self))
ReadCount == \E which \in {"nF", "nFx", "nFy", "nFz"} : Read(which, nFprop(Self, which))

\* T.number()
Number == Read("number", [o |-> number(Self), ret |-> NoRet])

(***************************************************************************)
(* Tree.refine(function, recursive, cells=None), one visited cell a step.  *)
(* The recursive call is the last thing a call does before it returns its  *)
(* own recurse list, so the frames below the running one only wait: frame  *)
(* holds the running call and top the list the outermost call will return.*)
(***************************************************************************)
RefineCall(maxSplits) ==
    /\ frame = Idle
    /\ nSplits < maxSplits
    /\ \E function \in Functions, recursive \in BOOLEAN :
         frame' = [pc |-> "loop", function |-> function, recursive |-> recursive,
                   cells |-> Sorted(_treeInds), i |-> 1, recurse |-> <<>>,
                   top |-> Unset, limit |-> maxSplits, fromRoot |-> _treeInds = {0}]
    /\ call' = [op |-> "refine"]
    /\ UNCHANGED <<tree, _treeInds, cache>>

\* do with >= for >
doNotBelow(function, cell) ==
    Apply(function, _cellC(_pointer(cell))) >= _pointer(cell)[dim + 1]

\* do = function(self._cellC(cell)) > p[-1]
do(function, cell) == Apply(function, _cellC(_pointer(cell))) > _pointer(cell)[dim + 1]

\* recurse += self._refineCell(cell)
RefineSplit(r) ==
    /\ r.o.raised = "" => nSplits < frame.limit
    /\ _treeInds' = r.tree
    /\ Commit(r.o)
    /\ IF r.o.raised # ""
       THEN /\ frame' = Idle
            /\ call' = [op |-> "refine", raised |-> r.o.raised, ret |-> NoRet,
                        function |-> frame.function, recursive |-> frame.recursive,
                        fromRoot |-> frame.fromRoot]
       ELSE /\ frame' = [frame EXCEPT !.i = @ + 1, !.recurse = @ \o r.added]
            /\ UNCHANGED call

\* one pass of the loop of lines 252-256
RefineVisit ==
    /\ frame.pc = "loop"
    /\ frame.i <= Len(frame.cells)
    /\ IF do(frame.function, frame.cells[frame.i])
       THEN RefineSplit(_refineCell(Self, IntArg(frame.cells[frame.i])))
       ELSE /\ frame' = [frame EXCEPT !.i = @ + 1]
            /\ UNCHANGED <<_treeInds, cache, call>>
    /\ UNCHANGED tree

\* lines 258-260: the loop is through
RefineReturn ==
    /\ frame.pc = "loop"
    /\ frame.i > Len(frame.cells)
    /\ LET top == IF frame.top = Unset THEN Some(frame.recurse) ELSE frame.top IN
       IF frame.recursive /\ Len(frame.recurse) > 0
       THEN /\ frame' = [frame EXCEPT !.cells = frame.recurse, !.i = 1,
                                      !.recurse = <<>>, !.top = top]
            /\ UNCHANGED call
       ELSE /\ frame' = Idle
            /\ call' = [op |-> "refine", raised |-> "", ret |-> top[1],
                        function |-> frame.function, recursive |-> frame.recursive,
                        fromRoot |-> frame.fromRoot]
    /\ UNCHANGED <<tree, _treeInds, cache>>

(***************************************************************************)
(* The codec on its own: _index of a pointer, then _pointer of the index   *)
(***************************************************************************)
\* the valid pointers: level in 0..levels, coordinates in [0, 2^levels)
\* aligned to 2^(levels - level)
ValidPointers ==
    LET coords(l) == {c \in 0..(2^levels - 1) : c % _levelWidth(l) = 0}
    IN  UNION {
          IF dim = 2
          THEN {<<x, y, l>> : x \in coords(l), y \in coords(l)}
          ELSE {<<x, y, z, l>> : x \in coords(l), y \in coords(l), z \in coords(l)}
          : l \in 0..levels}

Encode ==
    /\ call.op = "__init__"
    /\ \E p \in ValidPointers \cup {<<0, 0, levels + 1>>, <<0, 0, 0, levels + 1>>} :
         call' = IF _indexAsserts(p)
                 THEN [op |-> "_index", arg |-> p, raised |-> "", ret |-> _index(p)]
                 ELSE [op |-> "_index", arg |-> p, raised |-> "AssertionError",
                       ret |-> 0]
    /\ UNCHANGED <<tree, _treeInds, cache, frame>>

Decode ==
    /\ call.op = "_index"
    /\ call.raised = ""
    /\ call' = [op |-> "_pointer", arg |-> call.ret, raised |-> "",
                ret |-> _pointer(call.ret), from |-> call.arg]
    /\ UNCHANGED <<tree, _treeInds, cache, frame>>

(***************************************************************************)
(* Specifications                                                          *)
(***************************************************************************)
\* the mesh with its lazy caches: direct splits and every read
Init == InitTree(MaxLevels - 1)
Split == RefineCell(SplitArgs, MaxSplits - 1)
Next ==
    \/ Split
    \/ ReadGridCC
    \/ ReadGridFx
    \/ ReadGridFy
    \/ ReadGridFz
    \/ ReadFaceDiv
    \/ ReadCount
Spec == Init /\ [][Next]_vars

\* the cell store: splits, and calls of _refineCell that are refused
InitStore == InitTree(MaxLevels)
SplitStore == RefineCell(SplitArgs, MaxSplits)
Refuse == RefineCell(RefusedArgs, MaxSplits)
NextStore ==
    \/ SplitStore
    \/ Refuse
SpecStore == InitStore /\ [][NextStore]_vars

\* the meshes reachable by _refineCell, and their numbering
InitMesh == InitTree(MaxLevels)
SplitMesh == RefineCell(SplitArgs, MaxSplits)
NextMesh ==
    \/ SplitMesh
    \/ Number
SpecMesh == InitMesh /\ [][NextMesh]_vars

\* refine(function) from the root or from a mesh split by hand, and numbering
InitRefine == InitTree(MaxLevels)
SplitFirst == RefineCell(SplitArgs, 1)
StartRefine == RefineCall(MaxRefineSplits)
NextRefine ==
    \/ SplitFirst
    \/ StartRefine
    \/ RefineVisit
    \/ RefineReturn
    \/ Number
SpecRefine == InitRefine /\ [][NextRefine]_vars

\* the neighbour walk on deeper meshes, 2-D
InitWalk == InitTree(MaxWalkLevels) /\ dim = 2 /\ levels = MaxWalkLevels
SplitWalk == RefineCell(SplitArgs, MaxWalkSplits)
SpecWalk == InitWalk /\ [][SplitWalk]_vars

\* the codec
InitCodec == InitTree(MaxLevels) /\ h = [ii \in 1..dim |-> [n \in 1..(2^levels) |-> 1]]
NextCodec ==
    \/ Encode
    \/ Decode
SpecCodec == InitCodec /\ [][NextCodec]_vars

(***************************************************************************)
(* Properties of the cell store                                            *)
(***************************************************************************)
RECURSIVE SumSeq(_)
SumSeq(s) == IF s = <<>> THEN 0 ELSE s[1] + SumSeq(Tail(s))

\* the unit cells of the 2^levels-per-axis grid, by their lowest corner
UnitCells ==
    LET R == 0..(2^levels - 1)
    IN  IF dim = 2 THEN R \X R ELSE R \X R \X R

\* the cell at pointer p covers the unit cell u
Covers(p, u) ==
    \A ii \in 1..dim : p[ii] <= u[ii] /\ u[ii] < p[ii] + _levelWidth(p[dim + 1])

LivePointers == {_pointer(i) : i \in _treeInds}

CellVolumes == [ii \in 1..Len(_sortedInds) |-> Product(_cellH(_pointer(_sortedInds[ii])))]

DomainVolume == Product([ii \in 1..dim |-> SumRange(h[ii], 0, Len(h[ii]))])

\* C1: after any sequence of successful _refineCell calls from the root-only
\* mesh, every unit cell of the finest grid is covered by exactly one live
\* cell, and the volumes of the live cells sum to the volume of the domain.
LiveCellsTileDomain ==
    /\ LET live == LivePointers
       IN  \A u \in UnitCells : Cardinality({p \in live : Covers(p, u)}) = 1
    /\ SumSeq(CellVolumes) = DomainVolume

\* a 3-D mesh after two or more splits, with live cells of levels 1 and 2
LiveCellsTileDomainWitness ==
    /\ dim = 3
    /\ nSplits >= 2
    /\ call.op = "_refineCell"
    /\ call.raised = ""
    /\ \E i \in _treeInds : Level(i) = 1
    /\ \E i \in _treeInds : Level(i) = 2

\* the argument of a _refineCell call names a cell that is not live, or a
\* live cell of level L
NotSplittable(arg) ==
    \/ arg.t = "int" /\ arg.i \notin _treeInds
    \/ arg.t = "list" /\ arg.l \notin LivePointers
    \/ _asPointer(arg)[dim + 1] = levels

\* C3: _refineCell on a cell that is not live, or on a live cell whose level
\* is already L, raises and leaves the set of live cells as it was.
RefusedSplitKeepsCells ==
    [][(call'.op = "_refineCell" /\ NotSplittable(call'.arg))
          => (call'.raised # "" /\ _treeInds' = _treeInds)]_vars

\* a refused call on a live cell of level L, in a mesh that has been split
RefusedSplitKeepsCellsWitness ==
    /\ call.op = "_refineCell"
    /\ call.raised = "AssertionError"
    /\ call.arg.t = "int"
    /\ call.arg.i \in _treeInds
    /\ Level(call.arg.i) = levels
    /\ nSplits >= 1

(***************************************************************************)
(* Properties of the codec                                                 *)
(***************************************************************************)
\* bit b of x
Bit(x, b) == (x \div (2^b)) % 2

\* the Morton number of the coordinates c, the first axis least significant:
\* bit b of axis a goes to bit b * d + (a - 1)
Morton(c) ==
    SumSeq([n \in 1..(Len(c) * MaxLevels) |->
               Bit(c[((n - 1) % Len(c)) + 1], (n - 1) \div Len(c)) * (2^(n - 1))])

\* C2: for every valid pointer p, _index(p) = Morton(coords) * 2^B + level
\* with B = ceil(sqrt(L)) + 1, and _pointer(_index(p)) = p.
DecodeInvertsEncode ==
    call.op = "_pointer" =>
        /\ call.ret = call.from
        /\ call.arg = Morton(SubSeq(call.from, 1, dim)) * (2^(CeilSqrt(levels) + 1))
                        + call.from[dim + 1]

\* the pointer (3, 5) of level 3 in a 2-D mesh of 3 levels: Morton number 39
DecodeInvertsEncodeWitness ==
    /\ call.op = "_pointer"
    /\ call.from = <<3, 5, 3>>
    /\ call.arg = 39 * 8 + 3
    /\ call.ret = <<3, 5, 3>>

(***************************************************************************)
(* Properties of the lazily derived quantities                             *)
(***************************************************************************)
\* the attributes a numbering of the live cells as they are now assigns
Renumbered == numberEnd(Self, numberBody)

\* C4: every read of faceDiv returns the divergence matrix of the live cells
\* as they are at that read, of shape (nC, nF); a refinement made after an
\* earlier read invalidates the cached matrix.
FaceDivIsOfCurrentCells ==
    (call.op = "faceDiv" /\ call.raised = "") =>
        /\ call.ret.shape = <<nC, Renumbered.numbering[1]._nF>>
        /\ call.ret.entries = faceDivBuild(Renumbered, _sortedInds).ret.entries
        /\ call.ret.VOL = Renumbered.numbering[1]._vol
        /\ call.ret.S = Renumbered.numbering[1]._area

\* C5: every read of gridCC returns nC rows, row i the centre of the i-th
\* live cell in sorted index order, also when it is read while the dirty bit
\* is still set.
GridCCIsOfCurrentCells ==
    call.op = "gridCC" =>
        /\ Len(call.ret) = nC
        /\ call.ret = gridCCrows

\* C6: the face accessors agree with each other at every point: what gridFx
\* returns has nFx rows, what gridFy returns has nFy rows, what gridFz returns
\* has nFz rows (3-D), and nF = nFx + nFy + (nFz if dim = 3 else 0).
FaceAccessorsAgree ==
    /\ call.op = "gridFx" => Len(call.ret) = nFprop(Self, "nFx").ret[1]
    /\ call.op = "gridFy" => Len(call.ret) = nFprop(Self, "nFy").ret[1]
    /\ (call.op = "gridFz" /\ dim = 3) => Len(call.ret) = nFprop(Self, "nFz").ret[1]
    /\ nFprop(Self, "nF").ret[1] =
          nFprop(Self, "nFx").ret[1] + nFprop(Self, "nFy").ret[1]
            + (IF dim = 3 THEN nFprop(Self, "nFz").ret[1] ELSE 0)

(***************************************************************************)
(* Properties of refine                                                    *)
(***************************************************************************)
\* refine(function, recursive=True) has returned, function's values all <= L
RefinedRecursively ==
    /\ frame = Idle
    /\ call.op = "refine"
    /\ call.raised = ""
    /\ call.recursive
    /\ call.function.k <= levels

\* C7: after refine(function, recursive=True) with the default cell list
\* returns, for a function whose values never exceed L, every live cell c has
\* level(c) >= function(centre(c)); and a cell is split only if
\* function(centre(c)) > level(c) held when it was visited.
RefineReachesFunction ==
    /\ [](RefinedRecursively =>
            \A i \in _treeInds : Level(i) >= Apply(call.function, _cellC(_pointer(i))))
    /\ [][(frame.pc = "loop" /\ _treeInds' # _treeInds) =>
            \A i \in _treeInds \ _treeInds' :
                Apply(frame.function, _cellC(_pointer(i))) > Level(i)]_vars

\* refine with the function that is 3 in the lower corner has returned and
\* has left cells of level 3 there and coarser cells elsewhere
RefineReachesFunctionWitness ==
    /\ RefinedRecursively
    /\ call.function = [kind |-> "corner", k |-> 3]
    /\ \E i \in _treeInds : Level(i) = 3
    /\ \E i \in _treeInds : Level(i) = 1

\* refine with the constant function k <= L has returned on a mesh that was
\* the root only
RefinedUniformly ==
    /\ RefinedRecursively
    /\ call.function.kind = "const"
    /\ call.fromRoot

\* (n+1) * n^(d-1) for n = 2^k
FacesPerAxis(k) == (2^k + 1) * (2^k)^(dim - 1)

\* the counts of C10 for the numbering nb
UniformCounts(nb, k) ==
    /\ nb._nC = (2^k)^dim
    /\ nb._nFx = FacesPerAxis(k)
    /\ nb._nFy = FacesPerAxis(k)
    /\ dim = 3 => nb._nFz = Some(FacesPerAxis(k))
    /\ nb._nF = dim * FacesPerAxis(k)
    /\ nb._hangingFacesX = <<>>
    /\ nb._hangingFacesY = <<>>
    /\ dim = 3 => nb._hangingFacesZ = Some(<<>>)

EqualVolumes(nb) == \A m, n \in 1..Len(nb._vol) : nb._vol[m] = nb._vol[n]

\* C10 as stated: for the mesh refined from the root by refine with the
\* constant function k <= L, numbering gives nC = n^d, nFx = nFy (= nFz)
\* = (n+1) * n^(d-1), nF = d * (n+1) * n^(d-1) with n = 2^k, no hanging face,
\* and every cell has the same volume.
UniformMeshNumbering ==
    RefinedUniformly =>
        /\ number(Self).raised = ""
        /\ UniformCounts(number(Self).numbering[1], call.function.k)
        /\ EqualVolumes(number(Self).numbering[1])

\* every axis has equal spacings
EqualSpacings == \A ii \in 1..dim : \A m, n \in 1..Len(h[ii]) : h[ii][m] = h[ii][n]

\* C10 as amended: the counts hold and no face is hanging for every h; every
\* cell has the same volume when the spacings of each axis are equal.
UniformMeshNumberingEqualSpacings ==
    RefinedUniformly =>
        /\ number(Self).raised = ""
        /\ UniformCounts(number(Self).numbering[1], call.function.k)
        /\ EqualSpacings => EqualVolumes(number(Self).numbering[1])

\* the 3-D mesh of 2 levels refined by the constant function 2: 64 cells
UniformMeshNumberingWitness ==
    /\ RefinedUniformly
    /\ dim = 3
    /\ call.function.k = 2
    /\ nC = 64
    /\ number(Self).numbering[1]._nF = 240

(***************************************************************************)
(* Properties of the numbering and of the neighbour walker                 *)
(***************************************************************************)
\* the sum of the areas of the faces c2f[c][slot] of the numbering nb
SideArea(nb, c, slot) ==
    SumSeq([n \in 1..Len(nb._c2f[c][slot + 1]) |->
               nb._area[nb._c2f[c][slot + 1][n] + faceOffsets(nb)[slot + 1] + 1]])

\* C8: in every mesh reachable by refinement, 2-D and 3-D, after numbering
\* the areas of the faces in c2f[c][+a] sum to the same value as the areas of
\* the faces in c2f[c][-a], for every live cell c and every axis a.
OppositeFaceAreasMatch ==
    (call.op = "number" /\ call.raised = "") =>
        \A c \in _treeInds : \A a \in 0..(dim - 1) :
            /\ c \in DOMAIN _numbering[1]._c2f
            /\ SideArea(_numbering[1], c, 2 * a) = SideArea(_numbering[1], c, 2 * a + 1)

\* the cells at p and q share a face: they touch along one axis and overlap
\* along every other
ShareFace(p, q) ==
    \E a \in 1..dim :
        /\ \/ p[a] + _levelWidth(p[dim + 1]) = q[a]
           \/ q[a] + _levelWidth(q[dim + 1]) = p[a]
        /\ \A b \in (1..dim) \ {a} :
              /\ p[b] < q[b] + _levelWidth(q[dim + 1])
              /\ q[b] < p[b] + _levelWidth(p[dim + 1])

\* 2:1 balance: live cells that share a face differ by at most one level
Balanced ==
    LET live == LivePointers
    IN  \A p \in live : \A q \in live :
            ShareFace(p, q) => p[dim + 1] - q[dim + 1] \in {-1, 0, 1}

\* what _getNextCell gave for n contains the cell c: it is c, or a list one
\* of whose elements is c
ContainsCell(back, c) ==
    \/ back = IntV(c)
    \/ back.t = "list" /\ \E k \in 1..Len(back.l) : back.l[k] = IntV(c)

\* for every live cell c, axis a and sign s: if _getNextCell(c, a, s) is an
\* index n then _getNextCell(n, a, -s) contains c
NeighbourClosure ==
    \A c \in _treeInds : \A a \in 0..(dim - 1) : \A s \in BOOLEAN :
        _getNextCell(_pointer(c), a, s).t = "int" =>
            ContainsCell(_getNextCell(_pointer(_getNextCell(_pointer(c), a, s).i), a, ~s), c)

\* C9 as stated: neighbour closure in every mesh reachable by refinement.
NeighbourClosureEveryMesh == NeighbourClosure

\* C9 as amended: neighbour closure in every 2:1-balanced mesh reachable by
\* refinement.
NeighbourClosureBalanced == Balanced => NeighbourClosure

\* a balanced 3-D mesh with a live cell whose neighbour is one level coarser
NeighbourClosureBalancedWitness ==
    /\ dim = 3
    /\ Balanced
    /\ nSplits >= 2
    /\ \E c \in _treeInds : \E a \in 0..(dim - 1) : \E s \in BOOLEAN :
          /\ _getNextCell(_pointer(c), a, s).t = "int"
          /\ Level(_getNextCell(_pointer(c), a, s).i) = Level(c) - 1
          /\ _getNextCell(_pointer(_getNextCell(_pointer(c), a, s).i), a, ~s).t = "list"

\* C11: in a 2:1-balanced mesh, d = 2 and d = 3, numbering gives a cell c whose
\* positive neighbour along an axis is a list of finer cells one new face per
\* listed cell, 2^(d-1) in all, each in c2f[c][+a] and in c2f[n_k][-a]; so every
\* c2f list of every live cell has 1 or 2^(d-1) entries, never 0.
HangingFacePerFinerCell ==
    (call.op = "number" /\ call.raised = "" /\ Balanced) =>
        \A c \in _treeInds :
            /\ c \in DOMAIN _numbering[1]._c2f
            /\ \A slot \in 1..(2 * dim) :
                  Len(_numbering[1]._c2f[c][slot]) \in {1, 2^(dim - 1)}
            /\ \A a \in 0..(dim - 1) :
                  _getNextCell(_pointer(c), a, TRUE).t = "list" =>
                      /\ Len(_getNextCell(_pointer(c), a, TRUE).l) = 2^(dim - 1)
                      /\ Len(_numbering[1]._c2f[c][2 * a + 2]) = 2^(dim - 1)
                      /\ \A k \in 1..(2^(dim - 1)) :
                            LET n == _getNextCell(_pointer(c), a, TRUE).l[k]
                            IN  /\ n.t = "int"
                                /\ n.i \in DOMAIN _numbering[1]._c2f
                                /\ _numbering[1]._c2f[n.i][2 * a + 1] =
                                       <<_numbering[1]._c2f[c][2 * a + 2][k]>>

\* C12: in every mesh reachable by _refineCell calls, balanced or not, of any
\* depth, the recursion of _getNextCell from every live cell, along every axis
\* and sign, reaches a result (None, an index or a list) and never re-enters
\* a call with the same pointer, direction and sign.
NextCellTerminates ==
    \A c \in _treeInds : \A a \in 0..(dim - 1) : \A s \in BOOLEAN :
        _getNextCell(_pointer(c), a, s) # Overflow

\* C12 as amended: in every 2:1-balanced mesh reachable by _refineCell calls the
\* recursion of _getNextCell from every live cell, along every axis and sign,
\* reaches a result and never re-enters a call with the same pointer,
\* direction and sign.
NextCellTerminatesBalanced == Balanced => NextCellTerminates

\* a balanced mesh of three sizes of cell where the walk goes up to a parent
\* from one cell and down into the children's anchors from another
NextCellTerminatesBalancedWitness ==
    /\ Balanced
    /\ nSplits >= 3
    /\ \E c \in _treeInds : Level(c) = 3
    /\ \E c \in _treeInds : \E a \in 0..(dim - 1) : \E s \in BOOLEAN :
          /\ _getNextCell(_pointer(c), a, s).t = "int"
          /\ Level(_getNextCell(_pointer(c), a, s).i) = Level(c) - 1
    /\ \E c \in _treeInds : \E a \in 0..(dim - 1) : \E s \in BOOLEAN :
          _getNextCell(_pointer(c), a, s).t = "list"

====
